---------------------------- MODULE Spec2Model ----------------------------
(***************************************************************************)
(* Model of web-scraping-entities-functions:                               *)
(*   autofill_company_info_to_csv.py  (extractors, executive lookup,       *)
(*                                     company aggregator, CSV merge)      *)
(*   PE_fund_contact_info_gathering.py (per-fund contact gathering)        *)
(*                                                                         *)
(* Text is a TLA+ string; character i of s is SubSeq(s, i, i).  The search *)
(* API (serp) and the entity recogniser (comprehend) are the external      *)
(* collaborators: functions from the request to the response, fixed for a  *)
(* behaviour.  A raised Python exception is an outcome with raised = TRUE. *)
(***************************************************************************)
EXTENDS Integers, Sequences, FiniteSets, TLC

VARIABLES
    program,       \* which entry point is running
    pc,            \* position in that entry point
    serp,          \* search collaborator: query -> response
    comprehend,    \* NER collaborator: text -> response
    args,          \* arguments of the call under study
    ret,           \* outcome of the call under study
    input_file,    \* the CSV file autofill_csv reads
    df,            \* the DataFrame of autofill_csv
    index,         \* loop position (row of df, or fund)
    info,          \* the mapping get_company_info returned for the current row
    output_files,  \* the CSV files written so far, oldest first
    log,           \* the calls made so far, in order
    error          \* the uncaught exception that ended the program, or ""

vars == <<program, pc, serp, comprehend, args, ret, input_file, df, index,
          info, output_files, log, error>>

-----------------------------------------------------------------------------
(* Bounds of the model *)

MaxResults == 3
MaxEntities == 3
MaxRows == 2

-----------------------------------------------------------------------------
(* Characters and text *)

Sentinel == "-"

LowerSeq == <<"a","b","c","d","e","f","g","h","i","j","k","l","m",
              "n","o","p","q","r","s","t","u","v","w","x","y","z">>
UpperSeq == <<"A","B","C","D","E","F","G","H","I","J","K","L","M",
              "N","O","P","Q","R","S","T","U","V","W","X","Y","Z">>
Lowers == {LowerSeq[i] : i \in 1..26}
Uppers == {UpperSeq[i] : i \in 1..26}
Digits == {"0","1","2","3","4","5","6","7","8","9"}
Whitespace == {" ", "\t", "\n"}

At(s, i) == IF i >= 1 /\ i <= Len(s) THEN SubSeq(s, i, i) ELSE ""

LowerChar(c) ==
    IF c \in Uppers THEN LowerSeq[CHOOSE i \in 1..26 : UpperSeq[i] = c] ELSE c

RECURSIVE Lower(_)
Lower(s) == IF s = "" THEN "" ELSE LowerChar(SubSeq(s, 1, 1)) \o Lower(Tail(s))

\* Python's `sub in s`
Contains(sub, s) ==
    \E i \in 0..(Len(s) - Len(sub)) : SubSeq(s, i + 1, i + Len(sub)) = sub

\* str.strip(): whitespace removed at both ends
RECURSIVE LStrip(_)
LStrip(s) == IF s # "" /\ SubSeq(s, 1, 1) \in Whitespace THEN LStrip(Tail(s)) ELSE s
RECURSIVE RStrip(_)
RStrip(s) ==
    IF s # "" /\ At(s, Len(s)) \in Whitespace
    THEN RStrip(SubSeq(s, 1, Len(s) - 1)) ELSE s
Strip(s) == RStrip(LStrip(s))

\* re.sub(r'\s+', ' ', s): every run of whitespace becomes one space
RECURSIVE CollapseWhitespace(_)
CollapseWhitespace(s) ==
    IF s = "" THEN ""
    ELSE IF SubSeq(s, 1, 1) \in Whitespace
         THEN " " \o CollapseWhitespace(LStrip(s))
         ELSE SubSeq(s, 1, 1) \o CollapseWhitespace(Tail(s))

\* length of the longest run of characters of class cls starting at position i
RECURSIVE RunLength(_, _, _)
RunLength(s, i, cls) ==
    IF i <= Len(s) /\ At(s, i) \in cls THEN 1 + RunLength(s, i + 1, cls) ELSE 0

Min(a, b) == IF a <= b THEN a ELSE b

\* The({Body(x) : x \in {e}}) is Body(e) with e evaluated once
The(S) == CHOOSE x \in S : TRUE

-----------------------------------------------------------------------------
(* Pattern extractors *)

PhoneChars == Digits \cup Whitespace \cup {"(", ")", "-"}

\* length of the match of \+?[\d\s()-]{10,20} that starts at position i, or 0
PhoneMatchLength(text, i) ==
    IF At(text, i) = "+"
    THEN LET run == RunLength(text, i + 1, PhoneChars)
         IN IF run >= 10 THEN 1 + Min(run, 20) ELSE 0
    ELSE LET run == RunLength(text, i, PhoneChars)
         IN IF run >= 10 THEN Min(run, 20) ELSE 0

extract_phone_number(text) ==
    LET starts == {i \in 1..Len(text) : PhoneMatchLength(text, i) > 0}
    IN IF starts = {} THEN Sentinel
       ELSE LET i == CHOOSE j \in starts : \A k \in starts : j <= k
                m == SubSeq(text, i, i + PhoneMatchLength(text, i) - 1)
            IN Strip(CollapseWhitespace(m))

WordChars == Lowers \cup Uppers \cup Digits \cup {"_"}
LocalChars == Lowers \cup Uppers \cup Digits \cup {".", "_", "%", "+", "-"}
DomainChars == Lowers \cup Uppers \cup Digits \cup {".", "-"}
TldChars == Lowers \cup Uppers \cup {"|"}

\* \b between positions k and k+1 of text
WordBoundary(text, k) == (At(text, k) \in WordChars) # (At(text, k + 1) \in WordChars)

\* end position of the match of the email pattern that starts at i, or 0:
\* the local part runs to the "@", the domain backtracks from its longest
\* run to a ".", and the top-level part backtracks from its longest run to
\* a word boundary.
EmailMatchEnd(text, i) ==
    LET l == RunLength(text, i, LocalChars)
        a == i + l
        d == RunLength(text, a + 1, DomainChars)
        ends == {e \in (a + 4)..Len(text) :
                    \E p \in (a + 2)..(a + d) :
                        /\ At(text, p) = "."
                        /\ e - p >= 2
                        /\ e - p <= RunLength(text, p + 1, TldChars)
                        /\ WordBoundary(text, e)}
        dots == {p \in (a + 2)..(a + d) :
                    /\ At(text, p) = "."
                    /\ \E e \in ends : e - p >= 2 /\ e - p <= RunLength(text, p + 1, TldChars)}
    IN IF l >= 1 /\ WordBoundary(text, i - 1) /\ At(text, a) = "@" /\ dots # {}
       THEN LET p == CHOOSE q \in dots : \A r \in dots : r <= q
                pe == {e \in ends : e - p >= 2 /\ e - p <= RunLength(text, p + 1, TldChars)}
            IN CHOOSE e \in pe : \A f \in pe : f <= e
       ELSE 0

extract_email(text) ==
    LET starts == {i \in 1..Len(text) : EmailMatchEnd(text, i) > 0}
    IN IF starts = {} THEN Sentinel
       ELSE LET i == CHOOSE j \in starts : \A k \in starts : j <= k
            IN SubSeq(text, i, EmailMatchEnd(text, i))

-----------------------------------------------------------------------------
(* Outcomes of calls: a value or a raised exception, with the calls made *)

Event(fn, arg) == [fn |-> fn, arg |-> arg]
Ok(value, calls) == [raised |-> FALSE, value |-> value, calls |-> calls]
Raised(exc, calls) == [raised |-> TRUE, value |-> exc, calls |-> calls]

\* dict.get(key, default) on a record
Get(d, key, default) == IF key \in DOMAIN d THEN d[key] ELSE default

\* d[key] = value on a dict held as a function
DictSet(d, key, value) ==
    The({[k \in (DOMAIN dict) \cup {key} |-> IF k = key THEN v ELSE dict[k]] :
            dict \in {d}, v \in {value}})

NaN == [kind |-> "nan", text |-> "nan"]
StrCell(s) == [kind |-> "str", text |-> s]

\* f"{company}": a missing company name is the float nan
Format(company) == IF company.kind = "float" THEN company.text \o ".0" ELSE company.text

-----------------------------------------------------------------------------
(* External collaborators *)

EmptyDict == <<>>
NoEntities == [raises |-> FALSE, Entities |-> <<>>]

\* GoogleSearch(params).get_dict()
get_dict(q) ==
    LET r == IF q \in DOMAIN serp THEN serp[q] ELSE [raises |-> FALSE, results |-> EmptyDict]
        ev == <<Event("GoogleSearch", q)>>
    IN IF r.raises THEN Raised("SearchError", ev) ELSE Ok(r.results, ev)

\* comprehend.detect_entities(Text=text, LanguageCode='en')
detect_entities(text) == IF text \in DOMAIN comprehend THEN comprehend[text] ELSE NoEntities

\* `'organic_results' in results and results['organic_results']`
HasOrganicResults(results) ==
    "organic_results" \in DOMAIN results /\ results["organic_results"] # <<>>

-----------------------------------------------------------------------------
(* Entity extractors *)

EntityTexts(entities, entity_type) ==
    LET OfType(e) == e.Type = entity_type
        kept == SelectSeq(entities, OfType)
    IN [i \in 1..Len(kept) |-> kept[i].Text]

extract_entity(text, entity_type) ==
    LET response == detect_entities(text)
        ev == <<Event("extract_entity", text)>>
    IN IF response.raises THEN Raised("ComprehendError", ev)
       ELSE LET entities == EntityTexts(response.Entities, entity_type)
            IN Ok(IF entities # <<>> THEN entities[1] ELSE Sentinel, ev)

\* max(texts, key=len): the first element no later element is longer than
RECURSIVE MaxByLenFrom(_, _, _)
MaxByLenFrom(texts, i, best) ==
    IF i > Len(texts) THEN best
    ELSE MaxByLenFrom(texts, i + 1, IF Len(texts[i]) > Len(best) THEN texts[i] ELSE best)

\* faulty variant of MaxByLen: the first text, as extract_entity takes it
MaxByLenTakesFirst(texts) == texts[1]

MaxByLen(texts) == MaxByLenFrom(texts, 2, texts[1])

extract_full_name(text) ==
    LET response == detect_entities(text)
        ev == <<Event("extract_full_name", text)>>
    IN IF response.raises THEN Raised("ComprehendError", ev)
       ELSE LET person_entities == EntityTexts(response.Entities, "PERSON")
            IN Ok(IF person_entities # <<>> THEN MaxByLen(person_entities) ELSE Sentinel, ev)

-----------------------------------------------------------------------------
(* Executive lookup *)

search_linkedin(name, company, title) ==
    LET q == name \o " " \o title \o " " \o Format(company) \o " site:linkedin.com"
        search == get_dict(q)
        calls == <<Event("search_linkedin", name)>> \o search.calls
    IN IF search.raised THEN Raised(search.value, calls)
       ELSE IF HasOrganicResults(search.value)
            THEN Ok(Get(search.value["organic_results"][1], "link", Sentinel), calls)
            ELSE Ok(Sentinel, calls)

ExecutiveRecord(name, email, linkedin, location) ==
    [name |-> name, email |-> email, linkedin |-> linkedin, location |-> location]

\* faulty variant of TitleMatches: `or result.get('title', '')`, true of any titled result
TitleMatchesAnyTitle(result, title) ==
    \/ Contains(Lower(title), Lower(Get(result, "snippet", "")))
    \/ Get(result, "title", "") # ""

\* the condition of line 154
TitleMatches(result, title) ==
    LET title_lower == Lower(title)
    IN \/ Contains(title_lower, Lower(Get(result, "snippet", "")))
       \/ Contains(title_lower, Lower(Get(result, "title", "")))

\* lines 155-160 for a result that matches the title and yielded `name`
ExtractDetails(result, name, company, title, calls) ==
    LET snippet == Get(result, "snippet", "")
        location == extract_entity(snippet, "LOCATION")
        email == extract_email(snippet)
        linkedin == search_linkedin(name, company, title)
        c1 == calls \o location.calls
        c2 == c1 \o <<Event("extract_email", snippet)>>
    IN IF location.raised THEN Raised(location.value, c1)
       ELSE IF linkedin.raised THEN Raised(linkedin.value, c2 \o linkedin.calls)
       ELSE Ok(ExecutiveRecord(name, email, linkedin.value, location.value),
               c2 \o linkedin.calls)

\* faulty variant of ScanResults: the break of line 160 one level out, so that the
\* first result that matches the title ends the loop whatever it yields
RECURSIVE ScanResultsBreakOnMatch(_, _, _, _, _)
ScanResultsBreakOnMatch(results, i, company, title, calls) ==
    IF i > Len(results)
    THEN Ok(ExecutiveRecord(Sentinel, Sentinel, Sentinel, Sentinel), calls)
    ELSE IF TitleMatches(results[i], title)
         THEN LET name == extract_full_name(Get(results[i], "snippet", "") \o " "
                                            \o Get(results[i], "title", ""))
                  c == calls \o name.calls
              IN IF name.raised THEN Raised(name.value, c)
                 ELSE IF name.value # Sentinel
                      THEN ExtractDetails(results[i], name.value, company, title, c)
                      ELSE Ok(ExecutiveRecord(Sentinel, Sentinel, Sentinel, Sentinel), c)
         ELSE ScanResultsBreakOnMatch(results, i + 1, company, title, calls)

\* the loop of lines 151-160 from result i on
RECURSIVE ScanResults(_, _, _, _, _)
ScanResults(results, i, company, title, calls) ==
    IF i > Len(results)
    THEN Ok(ExecutiveRecord(Sentinel, Sentinel, Sentinel, Sentinel), calls)
    ELSE IF TitleMatches(results[i], title)
         THEN LET name == extract_full_name(Get(results[i], "snippet", "") \o " "
                                            \o Get(results[i], "title", ""))
                  c == calls \o name.calls
              IN IF name.raised THEN Raised(name.value, c)
                 ELSE IF name.value # Sentinel
                      THEN ExtractDetails(results[i], name.value, company, title, c)
                      ELSE ScanResults(results, i + 1, company, title, c)
         ELSE ScanResults(results, i + 1, company, title, calls)

search_executive_info(company, title) ==
    LET search == get_dict(title \o " " \o Format(company))
    IN IF search.raised THEN Raised(search.value, search.calls)
       ELSE IF HasOrganicResults(search.value)
            THEN ScanResults(search.value["organic_results"], 1, company, title, search.calls)
            ELSE Ok(ExecutiveRecord(Sentinel, Sentinel, Sentinel, Sentinel), search.calls)

-----------------------------------------------------------------------------
(* Company info aggregator *)

executives == <<"CFO", "COO", "CTO", "Partner">>

\* the loop of lines 194-199 from title k on
RECURSIVE ExecutivesLoop(_, _, _, _)
ExecutivesLoop(company, k, company_info, calls) ==
    IF k > Len(executives) THEN Ok(company_info, calls)
    ELSE LET exec_title == executives[k]
             Store(r) ==
                 DictSet(DictSet(DictSet(DictSet(company_info,
                     exec_title \o " Name", r.value.name),
                     exec_title \o " Email", r.value.email),
                     exec_title \o " LinkedIn", r.value.linkedin),
                     exec_title \o " Location", r.value.location)
         IN The({IF r.raised THEN Raised(r.value, calls \o r.calls)
                 ELSE The({ExecutivesLoop(company, k + 1, stored, done) :
                              stored \in {Store(r)}, done \in {calls \o r.calls}}) :
                    r \in {search_executive_info(company, exec_title)}})

\* faulty variant of PhoneScan: the break of line 216 left out, so that the scan
\* goes on and a later phone replaces an earlier one
RECURSIVE PhoneScanNoBreak(_, _, _)
PhoneScanNoBreak(results, i, calls) ==
    IF i > Len(results) THEN [phone |-> Sentinel, calls |-> calls]
    ELSE LET snippet == Get(results[i], "snippet", "")
             phone_number == extract_phone_number(snippet)
             rest == PhoneScanNoBreak(results, i + 1,
                                      calls \o <<Event("extract_phone_number", snippet)>>)
         IN IF phone_number # Sentinel /\ rest.phone = Sentinel
            THEN [phone |-> phone_number, calls |-> rest.calls]
            ELSE rest

\* the loop of lines 211-216 from result i on: the phone kept and the calls made
RECURSIVE PhoneScan(_, _, _)
PhoneScan(results, i, calls) ==
    IF i > Len(results) THEN [phone |-> Sentinel, calls |-> calls]
    ELSE LET snippet == Get(results[i], "snippet", "")
             phone_number == extract_phone_number(snippet)
             c == calls \o <<Event("extract_phone_number", snippet)>>
         IN IF phone_number # Sentinel
            THEN [phone |-> phone_number, calls |-> c]
            ELSE PhoneScan(results, i + 1, c)

get_company_info(company) ==
    LET Phone(execs, phone_search) ==
            LET c == execs.calls \o phone_search.calls
            IN IF phone_search.raised THEN Raised(phone_search.value, c)
               ELSE IF HasOrganicResults(phone_search.value)
                    THEN The({Ok(DictSet(execs.value, "Company Phone", scan.phone),
                                 scan.calls) :
                                 scan \in {PhoneScan(phone_search.value["organic_results"],
                                                     1, c)}})
                    ELSE Ok(DictSet(execs.value, "Company Phone", Sentinel), c)
    IN The({IF execs.raised THEN execs
            ELSE The({Phone(execs, phone_search) :
                         phone_search \in {get_dict(Format(company)
                                                    \o " contact phone number")}}) :
               execs \in {ExecutivesLoop(company, 1, <<>>, <<>>)}})

\* the keys of the returned mapping, in insertion order
InfoKeys ==
    <<"CFO Name", "CFO Email", "CFO LinkedIn", "CFO Location",
      "COO Name", "COO Email", "COO LinkedIn", "COO Location",
      "CTO Name", "CTO Email", "CTO LinkedIn", "CTO Location",
      "Partner Name", "Partner Email", "Partner LinkedIn", "Partner Location",
      "Company Phone">>

-----------------------------------------------------------------------------
(* CSV files and the DataFrame.  A file is its header and its rows of field *)
(* texts; a DataFrame cell is nan, a str, or a number held by its digits.   *)

CsvFile(header, rows) == [header |-> header, rows |-> rows]

\* the field texts pandas.read_csv takes for a missing value
NaValues == {"", "#N/A", "N/A", "NA", "NULL", "NaN", "None", "n/a", "nan", "null", "<NA>"}

Unsigned(text) == IF At(text, 1) \in {"+", "-"} THEN Tail(text) ELSE text
AllDigits(text) == text # "" /\ RunLength(text, 1, Digits) = Len(text)
IsIntegerText(text) == AllDigits(Unsigned(text))
\* a float as to_csv writes a whole number: digits followed by ".0"
IsFloatText(text) ==
    /\ Len(text) >= 3
    /\ SubSeq(text, Len(text) - 1, Len(text)) = ".0"
    /\ IsIntegerText(SubSeq(text, 1, Len(text) - 2))
IsNumberText(text) == IsIntegerText(text) \/ IsFloatText(text)

RECURSIVE StripZeros(_)
StripZeros(digits) ==
    IF Len(digits) > 1 /\ At(digits, 1) = "0" THEN StripZeros(Tail(digits)) ELSE digits

\* the digits of the number a field text parses to: sign "+" and leading zeros go
NumberDigits(text) ==
    LET whole == IF IsFloatText(text) THEN SubSeq(text, 1, Len(text) - 2) ELSE text
        digits == StripZeros(Unsigned(whole))
    IN IF At(whole, 1) = "-" /\ digits # "0" THEN "-" \o digits ELSE digits

\* read_csv's type inference for one column, given the column's field texts
ParseColumn(texts) ==
    LET present == {i \in DOMAIN texts : texts[i] \notin NaValues}
        numeric == present # {} /\ \A i \in present : IsNumberText(texts[i])
        float == present # DOMAIN texts \/ \E i \in present : IsFloatText(texts[i])
    IN [i \in DOMAIN texts |->
           IF i \notin present THEN NaN
           ELSE IF numeric
                THEN [kind |-> IF float THEN "float" ELSE "int", text |-> NumberDigits(texts[i])]
                ELSE StrCell(texts[i])]

\* a header field left empty is named after its position
ColumnName(header, j) ==
    IF header[j] = "" THEN "Unnamed: " \o ToString(j - 1) ELSE header[j]

\* pd.read_csv(input_file)
read_csv(file) ==
    LET columns == [j \in DOMAIN file.header |-> ColumnName(file.header, j)]
        Parsed(j) == ParseColumn([i \in DOMAIN file.rows |-> file.rows[i][j]])
        Position(name) == CHOOSE j \in DOMAIN columns : columns[j] = name
    IN The({[columns |-> columns,
             rows |-> [i \in DOMAIN file.rows |->
                          [name \in {columns[j] : j \in DOMAIN columns} |->
                              parsed[Position(name)][i]]]] :
               parsed \in {[j \in DOMAIN columns |-> Parsed(j)]}})

\* the text to_csv writes for a cell
CellText(cell) ==
    IF cell.kind = "nan" THEN ""
    ELSE IF cell.kind = "float" THEN cell.text \o ".0"
    ELSE cell.text

\* df.to_csv(output_file, index=False)
to_csv(frame) ==
    CsvFile(frame.columns,
            [i \in DOMAIN frame.rows |->
                [j \in DOMAIN frame.columns |-> CellText(frame.rows[i][frame.columns[j]])]])

ColumnSet(frame) == {frame.columns[j] : j \in DOMAIN frame.columns}

-----------------------------------------------------------------------------
(* CSV merge engine: autofill_csv *)

\* faulty variant of ShouldFill: `!= '-'` for `== '-'`
ShouldFillUnlessSentinel(cell) ==
    cell.kind = "nan" \/ cell = StrCell("") \/ cell # StrCell(Sentinel)

\* the condition of line 247
ShouldFill(cell) == cell.kind = "nan" \/ cell = StrCell("") \/ cell = StrCell(Sentinel)

\* df.at[i, key] = value
SetCell(frame, i, key, value) ==
    [frame EXCEPT !.rows[i] = [@ EXCEPT ![key] = StrCell(value)]]

\* the loop of lines 246-248 from key k on: reading a cell of a column the
\* frame does not have raises KeyError
RECURSIVE FillFrom(_, _, _, _)
FillFrom(frame, i, company_info, k) ==
    IF k > Len(InfoKeys) THEN [raised |-> FALSE, df |-> frame]
    ELSE LET key == InfoKeys[k]
         IN IF key \notin ColumnSet(frame) THEN [raised |-> TRUE, df |-> frame]
            ELSE The({FillFrom(next, i, company_info, k + 1) :
                         next \in {IF ShouldFill(frame.rows[i][key])
                                   THEN SetCell(frame, i, key, company_info[key])
                                   ELSE frame}})

NoFrame == [columns |-> <<>>, rows |-> <<>>]
NoInfo == <<>>

ReadCsv ==
    /\ program = "autofill_csv" /\ pc = "read_csv"
    /\ df' = read_csv(input_file)
    /\ index' = 1
    /\ pc' = IF input_file.rows = <<>> THEN "to_csv" ELSE "row"
    /\ UNCHANGED <<program, serp, comprehend, args, ret, input_file, info,
                   output_files, log, error>>

\* one iteration of the loop of line 242, up to the delay
ProcessRow ==
    /\ program = "autofill_csv" /\ pc = "row"
    /\ IF "FIRM NAME" \notin ColumnSet(df)
       THEN /\ pc' = "raised" /\ error' = "KeyError"
            /\ UNCHANGED <<df, info, log>>
       ELSE LET company_name == df.rows[index]["FIRM NAME"]
            IN \E fetched \in {get_company_info(company_name)} :
               LET called == log \o <<Event("get_company_info", Format(company_name))>>
                                 \o fetched.calls
               IN IF fetched.raised
                  THEN /\ pc' = "raised" /\ error' = fetched.value
                       /\ log' = called
                       /\ UNCHANGED <<df, info>>
                  ELSE \E filled \in {FillFrom(df, index, fetched.value, 1)} :
                       /\ info' = fetched.value
                       /\ df' = filled.df
                       /\ IF filled.raised
                          THEN /\ pc' = "raised" /\ error' = "KeyError"
                               /\ log' = called
                          ELSE /\ pc' = "sleep" /\ error' = error
                               /\ log' = called \o <<Event("fill", ToString(index))>>
    /\ UNCHANGED <<program, serp, comprehend, args, ret, input_file, index, output_files>>

\* faulty variant of Sleep: the delay only between rows, none after the last
SleepBetweenRows ==
    /\ program = "autofill_csv" /\ pc = "sleep"
    /\ log' = IF index < Len(df.rows) THEN Append(log, Event("sleep", ToString(index)))
              ELSE log
    /\ index' = index + 1
    /\ pc' = IF index < Len(df.rows) THEN "row" ELSE "to_csv"
    /\ UNCHANGED <<program, serp, comprehend, args, ret, input_file, df, info,
                   output_files, error>>

\* time.sleep(3), then the next row
Sleep ==
    /\ program = "autofill_csv" /\ pc = "sleep"
    /\ log' = Append(log, Event("sleep", ToString(index)))
    /\ index' = index + 1
    /\ pc' = IF index < Len(df.rows) THEN "row" ELSE "to_csv"
    /\ UNCHANGED <<program, serp, comprehend, args, ret, input_file, df, info,
                   output_files, error>>

ToCsv ==
    /\ program = "autofill_csv" /\ pc = "to_csv"
    /\ output_files' = Append(output_files, to_csv(df))
    /\ pc' = "done"
    /\ UNCHANGED <<program, serp, comprehend, args, ret, input_file, df, index, info,
                   log, error>>

\* the script is run again on the file it wrote
Rerun ==
    /\ program = "autofill_csv" /\ pc = "done" /\ Len(output_files) = 1
    /\ input_file' = output_files[1]
    /\ df' = NoFrame /\ index' = 0 /\ info' = NoInfo
    /\ pc' = "read_csv"
    /\ UNCHANGED <<program, serp, comprehend, args, ret, output_files, log, error>>

-----------------------------------------------------------------------------
(* PE_fund_contact_info_gathering.py *)

\* the loop of lines 21-32 from result i on
RECURSIVE CollectContacts(_, _, _)
CollectContacts(results, i, contact_info) ==
    IF i > Len(results) THEN contact_info
    ELSE LET snippet == Get(results[i], "snippet", "")
             low == Lower(snippet)
             added ==
                [websites |-> Append(contact_info.websites, Get(results[i], "link", "None")),
                 emails |-> IF Contains("email", low)
                            THEN Append(contact_info.emails, snippet) ELSE contact_info.emails,
                 phones |-> IF Contains("phone", low)
                            THEN Append(contact_info.phones, snippet) ELSE contact_info.phones,
                 addresses |-> IF Contains("address", low)
                               THEN Append(contact_info.addresses, snippet)
                               ELSE contact_info.addresses]
         IN The({CollectContacts(results, i + 1, next) : next \in {added}})

fetch_contact_info_with_serp(pe_fund_name) ==
    LET search == get_dict(pe_fund_name \o " contact information")
        empty == [emails |-> <<>>, phones |-> <<>>, addresses |-> <<>>, websites |-> <<>>]
    IN IF search.raised THEN search
       ELSE Ok(CollectContacts(Get(search.value, "organic_results", <<>>), 1, empty),
               search.calls)

Prints(lines) == [i \in DOMAIN lines |-> Event("print", "  - " \o lines[i])]

\* one iteration of the loop of line 38: the exception of a failed lookup is
\* caught and printed, and the loop goes on
GatherFund ==
    /\ program = "gather_pe_contact_info" /\ pc = "fund"
    /\ \E fetched \in {fetch_contact_info_with_serp(args[index])} :
       LET fund_name == args[index]
           head == <<Event("print", "Gathering contact information for: " \o fund_name)>>
                   \o fetched.calls
       IN log' = log \o head
                 \o (IF fetched.raised
                     THEN <<Event("print", "Error gathering contact information for "
                                           \o fund_name \o ": " \o fetched.value)>>
                     ELSE <<Event("print", "Contact Information for " \o fund_name \o ":")>>
                          \o Prints(fetched.value.emails) \o Prints(fetched.value.phones)
                          \o Prints(fetched.value.addresses) \o Prints(fetched.value.websites))
                 \o <<Event("print", "-")>>
    /\ index' = index + 1
    /\ pc' = IF index < Len(args) THEN "fund" ELSE "done"
    /\ UNCHANGED <<program, serp, comprehend, args, ret, input_file, df, info,
                   output_files, error>>

-----------------------------------------------------------------------------
(* Calls of single functions *)

CallExtractFullName ==
    /\ program = "extract_full_name" /\ pc = "call"
    /\ ret' = extract_full_name(args)
    /\ pc' = "returned"
    /\ UNCHANGED <<program, serp, comprehend, args, input_file, df, index, info,
                   output_files, log, error>>

CallExtractEntity ==
    /\ program = "extract_entity" /\ pc = "call"
    /\ ret' = extract_entity(args, "LOCATION")
    /\ pc' = "returned"
    /\ UNCHANGED <<program, serp, comprehend, args, input_file, df, index, info,
                   output_files, log, error>>

CallSearchExecutiveInfo ==
    /\ program = "search_executive_info" /\ pc = "call"
    /\ ret' = search_executive_info(args.company, args.title)
    /\ pc' = "returned"
    /\ UNCHANGED <<program, serp, comprehend, args, input_file, df, index, info,
                   output_files, log, error>>

CallGetCompanyInfo ==
    /\ program = "get_company_info" /\ pc = "call"
    /\ ret' = get_company_info(args)
    /\ pc' = "returned"
    /\ UNCHANGED <<program, serp, comprehend, args, input_file, df, index, info,
                   output_files, log, error>>

-----------------------------------------------------------------------------
(* Inputs *)

SeqsUpTo(S, n) == UNION {[1..k -> S] : k \in 0..n}

Raises == [raises |-> TRUE]
Results(list) == [raises |-> FALSE, results |-> [organic_results |-> list]]
NoOrganicKey == [raises |-> FALSE, results |-> EmptyDict]
Entities(list) == [raises |-> FALSE, Entities |-> list]
Entity(text, type) == [Text |-> text, Type |-> type]

NoFile == CsvFile(<<>>, <<>>)
NoRet == Ok("", <<>>)

\* extract_full_name / extract_entity: every entity list up to MaxEntities
EntityPool ==
    {Entity(t, ty) : t \in {"Al", "Jane", "John", "Jane Doe"}, ty \in {"PERSON", "LOCATION"}}

InitExtract ==
    /\ program \in {"extract_full_name", "extract_entity"}
    /\ pc = "call"
    /\ args = "some text"
    /\ serp = <<>>
    /\ comprehend \in {("some text" :> Entities(l)) : l \in SeqsUpTo(EntityPool, MaxEntities)}
                      \cup {("some text" :> Raises)}
    /\ ret = NoRet
    /\ input_file = NoFile /\ df = NoFrame /\ index = 0 /\ info = NoInfo
    /\ output_files = <<>> /\ log = <<>> /\ error = ""

NextExtract == CallExtractFullName \/ CallExtractEntity

SpecExtract == InitExtract /\ [][NextExtract]_vars

\* search_executive_info("Acme", "CFO"): every ranked list up to MaxResults
\* of these results, every NER answer on the texts asked about, every
\* LinkedIn answer
ResultInSnippet ==
    [title |-> "Acme team", snippet |-> "Our cfo Jane Doe, Boston j.doe@acme.com",
     link |-> "https://acme.example/team"]
ResultInTitle ==
    [title |-> "Acme CFO", snippet |-> "Bob Roe joined in May", link |-> "https://acme.example/cfo"]
ResultNoTitle ==
    [title |-> "Acme", snippet |-> "About us", link |-> "https://acme.example"]
ResultBare == [link |-> "https://acme.example/x"]
ResultPool == {ResultInSnippet, ResultInTitle, ResultNoTitle, ResultBare}

NameText(result) == result.snippet \o " " \o result.title

NameAnswers(person) ==
    {Raises, Entities(<<Entity("Boston", "LOCATION")>>),
     Entities(<<Entity("Acme", "ORGANIZATION"), Entity(person, "PERSON")>>)}
LocationAnswers ==
    {Raises, Entities(<<Entity("Acme", "ORGANIZATION")>>),
     Entities(<<Entity("Boston", "LOCATION"), Entity("May", "LOCATION")>>)}
LinkedInAnswers ==
    {Raises, NoOrganicKey, Results(<<>>), Results(<<[title |-> "Jane Doe"]>>),
     Results(<<[link |-> "https://www.linkedin.com/in/janedoe"], ResultNoTitle>>)}

InitExecutive ==
    /\ program = "search_executive_info"
    /\ pc = "call"
    /\ args = [company |-> StrCell("Acme"), title |-> "CFO"]
    /\ \E response \in {Raises, NoOrganicKey}
                       \cup {Results(l) : l \in SeqsUpTo(ResultPool, MaxResults)},
          linked \in LinkedInAnswers :
          serp = ("CFO Acme" :> response)
                 @@ ("Jane Doe CFO Acme site:linkedin.com" :> linked)
    /\ \E n1 \in NameAnswers("Jane Doe"), n2 \in NameAnswers("Bob Roe"),
          l1 \in LocationAnswers :
          comprehend = (NameText(ResultInSnippet) :> n1) @@ (NameText(ResultInTitle) :> n2)
                       @@ (ResultInSnippet.snippet :> l1)
    /\ ret = NoRet
    /\ input_file = NoFile /\ df = NoFrame /\ index = 0 /\ info = NoInfo
    /\ output_files = <<>> /\ log = <<>> /\ error = ""

NextExecutive == CallSearchExecutiveInfo

SpecExecutive == InitExecutive /\ [][NextExecutive]_vars

\* get_company_info("Acme"): every ranked list up to MaxResults of these
\* phone-search results; the executive searches find nothing
PhoneResultPool ==
    {[snippet |-> "Contact Acme today"],
     [snippet |-> "Contact us at +1 (555) 123-4567 for more info."],
     [snippet |-> "Call 0123456789 now"],
     [snippet |-> "open    -     closed"],
     ResultBare}

InitCompany ==
    /\ program = "get_company_info"
    /\ pc = "call"
    /\ args = StrCell("Acme")
    /\ \E response \in {Raises, NoOrganicKey}
                       \cup {Results(l) : l \in SeqsUpTo(PhoneResultPool, MaxResults)} :
          serp = ("Acme contact phone number" :> response)
    /\ comprehend = <<>>
    /\ ret = NoRet
    /\ input_file = NoFile /\ df = NoFrame /\ index = 0 /\ info = NoInfo
    /\ output_files = <<>> /\ log = <<>> /\ error = ""

NextCompany == CallGetCompanyInfo

SpecCompany == InitCompany /\ [][NextCompany]_vars

-----------------------------------------------------------------------------
(* The two scripts.  What the collaborators answer about one company is one *)
(* of four kinds; a world gives each company its kind.                      *)

LeaderSnippet(c) == "Jane Doe is CFO of " \o c \o " in Boston, jane.doe@acme.com"
LeaderTitle(c) == c \o " leadership"
LeaderResult(c) ==
    [title |-> LeaderTitle(c), snippet |-> LeaderSnippet(c), link |-> "https://example.com/team"]
LeaderEntities ==
    Entities(<<Entity("Jane", "PERSON"), Entity("Jane Doe", "PERSON"),
               Entity("Boston", "LOCATION")>>)

\* searches find a CFO, her profile, a phone number and contact pages
FoundSerp(c) ==
    ("CFO " \o c :> Results(<<[title |-> "About " \o c, snippet |-> "Welcome"],
                              LeaderResult(c)>>))
    @@ ("COO " \o c :> Results(<<[title |-> "About " \o c, snippet |-> "Welcome"]>>))
    @@ ("Jane Doe CFO " \o c \o " site:linkedin.com"
            :> Results(<<[link |-> "https://www.linkedin.com/in/janedoe"]>>))
    @@ (c \o " contact phone number"
            :> Results(<<[snippet |-> "Contact " \o c], ResultBare,
                         [snippet |-> "Call 0123456789 now"]>>))
    @@ (c \o " contact information"
            :> Results(<<[snippet |-> "Email and phone of " \o c, link |-> "https://example.com"],
                         [snippet |-> "Our address"]>>))
FoundNer(c) ==
    (LeaderSnippet(c) \o " " \o LeaderTitle(c) :> LeaderEntities)
    @@ (LeaderSnippet(c) :> LeaderEntities)

\* the search API fails on the third title, and on the contact lookup
SearchFailsSerp(c) ==
    ("CTO " \o c :> Raises) @@ (c \o " contact information" :> Raises)

\* the entity recogniser fails on the first matching result
NerFailsSerp(c) == ("CFO " \o c :> Results(<<LeaderResult(c)>>))
NerFailsNer(c) == (LeaderSnippet(c) \o " " \o LeaderTitle(c) :> Raises)

KindSerp(kind, c) ==
    CASE kind = "found" -> FoundSerp(c)
      [] kind = "search_fails" -> SearchFailsSerp(c)
      [] kind = "ner_fails" -> NerFailsSerp(c)
      [] OTHER -> <<>>
KindNer(kind, c) ==
    CASE kind = "found" -> FoundNer(c)
      [] kind = "ner_fails" -> NerFailsNer(c)
      [] OTHER -> <<>>

\* "nan" is what a missing company name is searched as
WorldKinds ==
    [Acme : {"found", "quiet", "search_fails"},
     Beta : {"quiet", "search_fails", "ner_fails"},
     nan : {"found", "quiet"}]

WorldSerp(w) == KindSerp(w.Acme, "Acme") @@ KindSerp(w.Beta, "Beta") @@ KindSerp(w.nan, "nan")
WorldNer(w) == KindNer(w.Acme, "Acme") @@ KindNer(w.Beta, "Beta") @@ KindNer(w.nan, "nan")

\* input tables: four headers, rows up to MaxRows, a row's company present
\* or missing, its derived cells blank or partly filled in
FullHeader == <<"FIRM NAME">> \o InfoKeys
Headers == {FullHeader, <<"FIRM NAME">>, InfoKeys, <<"FIRM NAME", "CFO Name", "Company Phone">>}

FieldText(company, pattern, column) ==
    IF column = "FIRM NAME" THEN company
    ELSE IF pattern = "blank" THEN ""
    ELSE CASE column = "CFO Name" -> "Old Name"
           [] column = "CFO Email" -> Sentinel
           [] column = "COO Name" -> "NA"
           [] column = "Company Phone" -> "5550001111"
           [] OTHER -> ""

RowChoices == {"Acme", "Beta", ""} \X {"blank", "mixed"}

InputFiles ==
    {CsvFile(h, [i \in DOMAIN rs |-> [j \in DOMAIN h |-> FieldText(rs[i][1], rs[i][2], h[j])]]) :
        h \in Headers, rs \in SeqsUpTo(RowChoices, MaxRows)}

InitScripts ==
    /\ program \in {"autofill_csv", "gather_pe_contact_info"}
    /\ \E w \in WorldKinds : serp = WorldSerp(w) /\ comprehend = WorldNer(w)
    /\ IF program = "autofill_csv"
       THEN /\ input_file \in InputFiles
            /\ args = <<>>
            /\ pc = "read_csv"
       ELSE /\ input_file = NoFile
            /\ args \in SeqsUpTo({"Acme", "Beta"}, MaxRows)
            /\ pc = IF args = <<>> THEN "done" ELSE "fund"
    /\ index = IF program = "autofill_csv" THEN 0 ELSE 1
    /\ ret = NoRet /\ df = NoFrame /\ info = NoInfo
    /\ output_files = <<>> /\ log = <<>> /\ error = ""

Next == ReadCsv \/ ProcessRow \/ Sleep \/ ToCsv \/ GatherFund

Spec == InitScripts /\ [][Next]_vars

NextRerun == Next \/ Rerun

SpecRerun == InitScripts /\ [][NextRerun]_vars

-----------------------------------------------------------------------------
(* Properties *)

CallsOf(calls, fn) == LET Is(e) == e.fn = fn IN SelectSeq(calls, Is)
CountOf(calls, fn) == Len(CallsOf(calls, fn))
First(S) == CHOOSE i \in S : \A j \in S : i <= j
AllSentinel == ExecutiveRecord(Sentinel, Sentinel, Sentinel, Sentinel)

\* a cell the fill policy must leave alone / may fill
Protected(cell) == cell.kind # "nan" /\ cell.text \notin {"", Sentinel}
Fillable(cell) == ~Protected(cell)

\* text contains the title, case ignored
Mentions(title, text) == Contains(Lower(title), Lower(text))

(* ---- search_executive_info("Acme", "CFO"), under SpecExecutive ---- *)

ExecReturned == program = "search_executive_info" /\ pc = "returned"
ExecResponse == serp["CFO Acme"]
ExecResults == Get(ExecResponse.results, "organic_results", <<>>)
ResultSnippet(i) == Get(ExecResults[i], "snippet", "")
ResultTitle(i) == Get(ExecResults[i], "title", "")
ResultText(i) == ResultSnippet(i) \o " " \o ResultTitle(i)
Matching ==
    {i \in DOMAIN ExecResults :
        Mentions(args.title, ResultSnippet(i)) \/ Mentions(args.title, ResultTitle(i))}
\* the PERSON entities the recogniser reports for result i
Persons(i) ==
    LET response == detect_entities(ResultText(i))
    IN IF response.raises THEN {}
       ELSE {k \in DOMAIN response.Entities : response.Entities[k].Type = "PERSON"}
Yielding == {i \in Matching : Persons(i) # {}}
\* the matching results the scan reaches: up to the first that yields a name
Reached == {i \in Matching : \A j \in Yielding : i <= j}
NameAttempts == CallsOf(ret.calls, "extract_full_name")

C3_NoMatchNoCalls ==
    (ExecReturned /\ ~ExecResponse.raises /\ Matching = {}) =>
        /\ ~ret.raised
        /\ ret.value = AllSentinel
        /\ CountOf(ret.calls, "extract_full_name") = 0
        /\ CountOf(ret.calls, "extract_entity") = 0
        /\ CountOf(ret.calls, "search_linkedin") = 0
        /\ CountOf(ret.calls, "GoogleSearch") = 1

\* C3 witness: results were returned, none mentions the title
C3_Witness ==
    /\ ExecReturned /\ ~ExecResponse.raises
    /\ Len(ExecResults) >= 2 /\ Matching = {}
    /\ ret.value = AllSentinel
    /\ ret.calls = <<Event("GoogleSearch", "CFO Acme")>>

(* ---- get_company_info("Acme"), under SpecCompany ---- *)

CompanyReturned == program = "get_company_info" /\ pc = "returned"
PhoneResponse == serp["Acme contact phone number"]
PhoneResults == Get(PhoneResponse.results, "organic_results", <<>>)
PhoneOf(i) == extract_phone_number(Get(PhoneResults[i], "snippet", ""))
WithPhone == {i \in DOMAIN PhoneResults : PhoneOf(i) # Sentinel}
PhoneAttempts == CallsOf(ret.calls, "extract_phone_number")

\* C4: 'Company Phone' is the extraction of the lowest-ranked result whose
\* extraction is not the sentinel, or the sentinel when there is none;
\* extract_phone_number is called on the results in rank order, k times when
\* the k-th result is the first with a phone, once per result when none has.
C4_FirstPhoneWins ==
    (CompanyReturned /\ ~ret.raised) =>
        /\ ret.value["Company Phone"] =
              IF WithPhone = {} THEN Sentinel ELSE PhoneOf(First(WithPhone))
        /\ Len(PhoneAttempts) =
              IF WithPhone = {} THEN Len(PhoneResults) ELSE First(WithPhone)
        /\ \A n \in DOMAIN PhoneAttempts :
              PhoneAttempts[n].arg = Get(PhoneResults[n], "snippet", "")

\* C4 witness: only the third result has a phone; three attempts were made
C4_Witness ==
    /\ CompanyReturned /\ ~ret.raised
    /\ WithPhone # {} /\ First(WithPhone) = 3
    /\ Len(PhoneAttempts) = 3
    /\ ret.value["Company Phone"] = "+1 (555) 123-4567"

(* ---- extract_full_name, under SpecExtract ---- *)

NameReturned == program = "extract_full_name" /\ pc = "returned"
Reported == comprehend[args].Entities
ReportedPersons == {k \in DOMAIN Reported : Reported[k].Type = "PERSON"}

Autofill == program = "autofill_csv"
FrameKeys == {InfoKeys[k] : k \in DOMAIN InfoKeys} \cap ColumnSet(df)
\* the table as it was read, before any row was processed
AsRead == read_csv(input_file)

\* C1: processing a row never changes a cell that held a non-empty,
\* non-missing, non-sentinel value, whatever value was fetched.
C1_FillPolicySafety ==
    [][(Autofill /\ pc = "row") =>
          \A i \in DOMAIN df.rows : \A key \in FrameKeys :
              Protected(df.rows[i][key]) => df'.rows[i][key] = df.rows[i][key]]_vars

\* C1 witness: a row was processed, a different non-sentinel value was
\* fetched for a cell that held a value, and the cell still holds it
C1_Witness ==
    /\ Autofill /\ pc = "sleep"
    /\ info["CFO Name"] = "Jane Doe"
    /\ df.rows[index]["CFO Name"] = StrCell("Old Name")
    /\ df.rows[index]["CFO LinkedIn"] = StrCell("https://www.linkedin.com/in/janedoe")

\* C5 as stated: an exception of the search or NER collaborator during one
\* organization's lookup is caught there; it never ends the run.
C5_ErrorIsolation ==
    ~(pc = "raised" /\ error \in {"SearchError", "ComprehendError"})

HasAllColumns == \A k \in DOMAIN InfoKeys : \E j \in DOMAIN input_file.header :
                     input_file.header[j] = InfoKeys[k]

\* C6 as stated, for a table that has every column: for a row whose company
\* name is missing, get_company_info is not called, no search is issued,
\* and none of its cells changes.
C6_MissingNameSkipped ==
    (Autofill /\ HasAllColumns) =>
        /\ \A k \in DOMAIN log :
              /\ ~(log[k].fn = "get_company_info" /\ log[k].arg = "nan")
              /\ ~(log[k].fn = "GoogleSearch" /\ Contains("nan", log[k].arg))
        /\ \A i \in DOMAIN df.rows :
              ("FIRM NAME" \in ColumnSet(df) /\ df.rows[i]["FIRM NAME"] = NaN)
                 => df.rows[i] = AsRead.rows[i]

\* C7 as stated: once a row is processed, every one of the 17 keys is a
\* column of the table, and each cell that was empty, missing, the sentinel
\* or absent holds the fetched value; a table with only some of the columns
\* is processed to completion (here: no row with a company name ends the
\* run for the lack of a column).
C7_FillCompleteness ==
    Autofill =>
        /\ pc = "sleep" =>
              \A k \in DOMAIN InfoKeys :
                 /\ InfoKeys[k] \in ColumnSet(df)
                 /\ Fillable(AsRead.rows[index][InfoKeys[k]])
                       => df.rows[index][InfoKeys[k]] = StrCell(info[InfoKeys[k]])
        /\ ~(/\ pc = "raised" /\ error = "KeyError"
             /\ "FIRM NAME" \in ColumnSet(df)
             /\ df.rows[index]["FIRM NAME"] # NaN)

Delays == CallsOf(log, "sleep")

\* C9: the delay comes once per row, right after that row's lookup and cell
\* updates and before anything of the next row; none comes between the
\* searches of one row; a completed run has made as many delays as there
\* are rows.
C9_PacingPlacement ==
    Autofill =>
        /\ \A k \in DOMAIN log :
              /\ log[k].fn = "sleep" =>
                    k > 1 /\ log[k - 1] = Event("fill", log[k].arg)
              /\ (log[k].fn = "fill" /\ k < Len(log)) =>
                    log[k + 1] = Event("sleep", log[k].arg)
        /\ \A m, n \in DOMAIN Delays : Delays[m].arg = Delays[n].arg => m = n
        /\ pc \in {"to_csv", "done"} => Len(Delays) = Len(df.rows)

\* C9 witness: a completed run over two rows, with searches, made two delays
C9_Witness ==
    /\ Autofill /\ pc = "done"
    /\ Len(df.rows) = 2 /\ Len(Delays) = 2
    /\ CountOf(log, "GoogleSearch") > 8

(* ---- autofill_csv run twice, under SpecRerun ---- *)

\* C8 as stated: run on its own output, with collaborators that answer as
\* before, autofill writes a table equal to that output.
C8_MergeIdempotence ==
    Len(output_files) = 2 => output_files[2] = output_files[1]

=============================================================================
